---- MODULE Spec2Model ----
(***************************************************************************)
(* Object Detection API: the detector handle (app/inference.py), its       *)
(* HTTP boundary (app/main.py), the settings (app/config.py) and the       *)
(* response schemas (app/models.py).                                       *)
(*                                                                         *)
(* Conventions.  Thresholds and confidence scores are in hundredths        *)
(* (0.5 is 50, 1.01 is 101); raw box coordinates are in tenths of a pixel  *)
(* (10.7 is 107).  Python strings that the code inspects character by      *)
(* character (content type, file name) are sequences of one-character      *)
(* strings.  An optional value is a sequence: <<>> is Python's None and    *)
(* <<v>> is the value v.  The wall-clock value of inference_time_ms is not *)
(* modelled; a call records whether its timer was started.                 *)
(***************************************************************************)
EXTENDS Integers, Sequences, FiniteSets, TLC

None == <<>>
Some(v) == <<v>>

(***************************** bounds **************************************)
\* load_model calls explored in one behaviour
MaxLoads == 2
\* /predict handlers that can be suspended at `await file.read()` at once
NumSlots == 1
\* candidates in one raw detector result
MaxCands == 2

(***************************** app/config.py *******************************)
model_name == "yolov8n.pt"
app_version == "1.0.0"
confidence_threshold == 50
iou_threshold == 45
max_file_size == 10000000
allowed_extensions ==
    { <<"j", "p", "g">>, <<"j", "p", "e", "g">>, <<"p", "n", "g">>,
      <<"b", "m", "p">>, <<"w", "e", "b", "p">> }

(***************************** string helpers ******************************)
\* The upper-case letters and, at the same places, their lower-case forms
UpperLetters ==
    <<"A", "B", "C", "D", "E", "F", "G", "H", "I", "J", "K", "L", "M",
      "N", "O", "P", "Q", "R", "S", "T", "U", "V", "W", "X", "Y", "Z">>
LowerLetters ==
    <<"a", "b", "c", "d", "e", "f", "g", "h", "i", "j", "k", "l", "m",
      "n", "o", "p", "q", "r", "s", "t", "u", "v", "w", "x", "y", "z">>

\* str.lower() on one character: an upper-case letter becomes its lower-case
\* form, every other character is left as it is
LowerChar(c) ==
    IF \E i \in 1..Len(UpperLetters) : UpperLetters[i] = c
    THEN LowerLetters[CHOOSE i \in 1..Len(UpperLetters) : UpperLetters[i] = c]
    ELSE c

\* str.lower()
Lower(s) == [i \in 1..Len(s) |-> LowerChar(s[i])]

\* s.split(".")[-1]: what follows the last ".", the whole of s without one
RECURSIVE SplitLast(_)
SplitLast(s) ==
    IF s = <<>> THEN <<>>
    ELSE IF s[Len(s)] = "." THEN <<>>
    ELSE Append(SplitLast(SubSeq(s, 1, Len(s) - 1)), s[Len(s)])

\* s.startswith(p)
StartsWith(s, p) == Len(s) >= Len(p) /\ SubSeq(s, 1, Len(p)) = p

ImagePrefix == <<"i", "m", "a", "g", "e", "/">>

\* main.py: `not file.content_type or not file.content_type.startswith("image/")`
ContentTypeRejected(ct) ==
    \/ ct = None
    \/ ct[1] = <<>>
    \/ ~StartsWith(ct[1], ImagePrefix)

\* main.py: file.filename.split(".")[-1].lower() if file.filename else ""
FileExt(fn) ==
    IF fn = None \/ fn[1] = <<>> THEN <<>> ELSE Lower(SplitLast(fn[1]))

ExtensionRejected(fn) == FileExt(fn) \notin allowed_extensions

\* fastapi Query(None, ge=0.0, le=1.0): None or a value within [0, 1]
QueryOk(v) == v = None \/ (v[1] >= 0 /\ v[1] <= 100)

(***************************** inputs **************************************)
\* Uploaded byte strings, by what PIL makes of them: header is what
\* Image.open identifies (it reads the header only and leaves the pixel data
\* unread), mode the image mode it reports, data whether the pixel data can be
\* read in full, size the (width, height) of the header, nbytes len(bytes).
TextBytes ==
    [header |-> "bad", mode |-> "RGB", data |-> "truncated",
     size |-> <<0, 0>>, nbytes |-> 12]
PhotoBytes ==
    [header |-> "ok", mode |-> "RGB", data |-> "ok",
     size |-> <<640, 480>>, nbytes |-> 4000]
AlphaBytes ==
    [header |-> "ok", mode |-> "RGBA", data |-> "ok",
     size |-> <<32, 16>>, nbytes |-> max_file_size]
HugeBytes ==
    [header |-> "ok", mode |-> "RGB", data |-> "ok",
     size |-> <<640, 480>>, nbytes |-> max_file_size + 1]
CutPhotoBytes ==
    [header |-> "ok", mode |-> "RGB", data |-> "truncated",
     size |-> <<640, 480>>, nbytes |-> 2000]
CutAlphaBytes ==
    [header |-> "ok", mode |-> "RGBA", data |-> "truncated",
     size |-> <<32, 16>>, nbytes |-> 2000]

ByteStrings ==
    {TextBytes, PhotoBytes, AlphaBytes, HugeBytes, CutPhotoBytes, CutAlphaBytes}

\* A byte string is a decodable image when its header and its pixel data are.
Decodable(b) == b.header = "ok" /\ b.data = "ok"

\* (confidence, iou_threshold) argument pairs of a call
ThresholdArgs ==
    { <<None, None>>, <<Some(0), Some(100)>>,
      <<Some(101), None>>, <<None, Some(-10)>> }

\* Upload file names and content types
FileNames ==
    { None, Some(<<>>),
      Some(<<"t", ".", "t", "x", "t">>),
      Some(<<"a", ".", "p", "n", "g">>),
      Some(<<"a", ".", "J", "P", "G">>),
      Some(<<"a", ".", "W", "e", "b", "P">>),
      Some(<<"t", ".", "T", "X", "T">>),
      Some(<<"a", ".", "b", ".", "j", "p", "g">>),
      Some(<<"p", "n", "g">>),
      Some(<<"a", ".", "p", "n", "g", ".">>) }

ContentTypes ==
    { None,
      Some(<<"t", "e", "x", "t", "/", "p", "l", "a", "i", "n">>),
      Some(<<"i", "m", "a", "g", "e", "/", "p", "n", "g">>),
      Some(<<"i", "m", "a", "g", "e">>) }

PngType == Some(<<"i", "m", "a", "g", "e", "/", "p", "n", "g">>)
TextType == Some(<<"t", "e", "x", "t", "/", "p", "l", "a", "i", "n">>)
PngName == Some(<<"a", ".", "p", "n", "g">>)
TxtName == Some(<<"t", ".", "t", "x", "t">>)

\* The uploads of the requests: no part named "file" at all, or such a part
\* with its content type and its filename parameter (None: not given)
Uploads ==
    {[has_file |-> FALSE, content_type |-> None, filename |-> None]}
        \cup {[has_file |-> TRUE, content_type |-> PngType, filename |-> fn] : fn \in FileNames}
        \cup {[has_file |-> TRUE, content_type |-> ct, filename |-> PngName] : ct \in ContentTypes}
        \cup {[has_file |-> TRUE, content_type |-> TextType, filename |-> TxtName]}

\* The detector's label table (result.names) and the class indices it emits
class_names == [i \in {0, 1} |-> IF i = 0 THEN "person" ELSE "bicycle"]
ClassIds == {0, 1, 2}

\* Raw corner coordinates, in tenths of a pixel, and raw scores, in hundredths
Coords == {-5, 102, 107}
Scores == {50, 90, 101}

\* Raw candidates: boxes.xyxy rows with x1 < x2 and y1 < y2, boxes.conf, boxes.cls
RawBoxes ==
    {b \in Coords \X Coords \X Coords \X Coords : b[1] < b[3] /\ b[2] < b[4]}
Candidates == [box : RawBoxes, conf : Scores, cls : ClassIds]

RECURSIVE SeqsUpTo(_, _)
SeqsUpTo(S, n) ==
    IF n = 0 THEN {<<>>}
    ELSE LET shorter == SeqsUpTo(S, n - 1)
         IN shorter \cup {Append(q, c) : q \in {t \in shorter : Len(t) = n - 1}, c \in S}

\* Raw results: result.boxes is None, or the parallel arrays of its candidates
RawResults ==
    {[boxes_none |-> TRUE, cands |-> <<>>]}
        \cup {[boxes_none |-> FALSE, cands |-> q] : q \in SeqsUpTo(Candidates, MaxCands)}

\* The raw results the lifecycle specification lets the model return
SampleCand == [box |-> <<-5, 102, 107, 107>>, conf |-> 50, cls |-> 1]
SampleRaws ==
    { [boxes_none |-> FALSE, cands |-> <<>>],
      [boxes_none |-> FALSE, cands |-> <<SampleCand>>],
      [boxes_none |-> FALSE, cands |-> <<[SampleCand EXCEPT !.cls = 2]>>] }

(***************************** app/inference.py ****************************)
\* process_image: Image.open, then convert("RGB") when the mode is not RGB.
\* Image.open fails on an unidentifiable header; convert reads the pixel data
\* and fails when they cannot be read; an RGB image is returned unread.
process_image(b) ==
    IF b.header # "ok"
    THEN [err |-> "UnidentifiedImageError", image |-> None]
    ELSE IF b.mode # "RGB"
    THEN IF b.data # "ok"
         THEN [err |-> "OSError", image |-> None]
         ELSE [err |-> "", image |-> Some([mode |-> "RGB", data |-> "ok", size |-> b.size])]
    ELSE [err |-> "", image |-> Some([mode |-> "RGB", data |-> b.data, size |-> b.size])]

\* int(x) of a float: truncation toward zero (x in tenths)
Trunc(x) == IF x >= 0 THEN x \div 10 ELSE -((-x) \div 10)

\* BoundingBox(x_min=int(box[0]), y_min=int(box[1]), x_max=int(box[2]), y_max=int(box[3]))
BoundingBox(box) ==
    [x_min |-> Trunc(box[1]), y_min |-> Trunc(box[2]),
     x_max |-> Trunc(box[3]), y_max |-> Trunc(box[4])]

\* Detection(...): the error constructing it raises ("" for none).  The class
\* name is looked up first; pydantic then validates 0.0 <= confidence <= 1.0.
DetectionError(c) ==
    IF c.cls \notin DOMAIN class_names THEN "KeyError"
    ELSE IF ~(c.conf >= 0 /\ c.conf <= 100) THEN "ValidationError"
    ELSE ""

Detection(c) ==
    [class_name |-> class_names[c.cls], confidence |-> c.conf, bbox |-> BoundingBox(c.box)]

\* _parse_results: one Detection per candidate, in order; the first candidate
\* whose Detection cannot be built raises and ends the call.
\* A loop that puts each new Detection in front: detections.insert(0, detection)
RECURSIVE ParseLoop_Prepend(_, _)
ParseLoop_Prepend(cands, detections) ==
    IF cands = <<>> THEN [err |-> "", detections |-> detections]
    ELSE IF DetectionError(Head(cands)) # ""
    THEN [err |-> DetectionError(Head(cands)), detections |-> <<>>]
    ELSE ParseLoop_Prepend(Tail(cands), <<Detection(Head(cands))>> \o detections)

RECURSIVE ParseLoop(_, _)
ParseLoop(cands, detections) ==
    IF cands = <<>> THEN [err |-> "", detections |-> detections]
    ELSE IF DetectionError(Head(cands)) # ""
    THEN [err |-> DetectionError(Head(cands)), detections |-> <<>>]
    ELSE ParseLoop(Tail(cands), Append(detections, Detection(Head(cands))))

_parse_results(result) ==
    IF result.boxes_none \/ Len(result.cands) = 0
    THEN [err |-> "", detections |-> <<>>]
    ELSE ParseLoop(result.cands, <<>>)

\* A response that counts the distinct detections: len(set(detections))
PredictionResponse_CountDistinct(detections, size) ==
    [detections |-> detections,
     num_detections |-> Cardinality({detections[i] : i \in 1..Len(detections)}),
     image_dimensions |-> size,
     model_name |-> model_name]

\* PredictionResponse(detections, num_detections=len(detections), ...)
PredictionResponse(detections, size) ==
    [detections |-> detections,
     num_detections |-> Len(detections),
     image_dimensions |-> size,
     model_name |-> model_name]

\* predict, lines 106-110: the settings' defaults for omitted thresholds
ConfArg(conf) == IF conf = None THEN confidence_threshold ELSE conf[1]
IouArg(iou) == IF iou = None THEN iou_threshold ELSE iou[1]

\* predict without its readiness check
PredictStart_NoReadyCheck(loaded, b, conf, iou) ==
    LET p == process_image(b)
    IN [err |-> p.err, stage |-> "decode", image |-> p.image,
        conf |-> Some(ConfArg(conf)), iou |-> Some(IouArg(iou))]

\* predict(), lines 103-114: the readiness check, the defaults, the decode.
\* loaded is what is_loaded() returns.
PredictStart(loaded, b, conf, iou) ==
    IF ~loaded
    THEN [err |-> "RuntimeError", stage |-> "not_loaded", image |-> None,
          conf |-> None, iou |-> None]
    ELSE LET p == process_image(b)
         IN [err |-> p.err, stage |-> "decode", image |-> p.image,
             conf |-> Some(ConfArg(conf)), iou |-> Some(IouArg(iou))]

\* predict, line 123: self.model.predict(source=image, conf=..., iou=...).
\* The detector reads the pixel data, so an image whose data cannot be read
\* makes it raise; what it does with a threshold outside [0, 1] is the
\* library's business: it raises or it returns a result.
ModelOutcomes(image, conf, iou, raws) ==
    LET returned == {[err |-> "", raw |-> Some(r)] : r \in raws}
    IN IF image.data # "ok" THEN {[err |-> "OSError", raw |-> None]}
       ELSE IF conf < 0 \/ conf > 100 \/ iou < 0 \/ iou > 100
       THEN returned \cup {[err |-> "ValueError", raw |-> None]}
       ELSE returned

\* predict, lines 127-139: translate the raw result and build the response
PredictFinish(raw, size) ==
    LET parsed == _parse_results(raw)
    IN IF parsed.err # ""
       THEN [err |-> parsed.err, body |-> None]
       ELSE [err |-> "", body |-> Some(PredictionResponse(parsed.detections, size))]

(***************************** state ***************************************)
VARIABLES
    model,      \* detector.model: 0 is None, n > 0 the n-th YOLO object built
    yoloCalls,  \* how many times YOLO(self.model_name) has been entered
    loads,      \* the load_model calls inside YOLO(...): the objects under
                \* construction
    started,    \* startup_event has been run
    returns,    \* the values the load_model calls have returned, in order
    pend,       \* per handler slot: the thresholds of a /predict handler
                \* suspended at `await file.read()`, or None
    inflight,   \* a direct predict call the model has just returned to, or None
    out         \* the call that completed last: what it was given, what it
                \* did and what it answered

vars == <<model, yoloCalls, loads, started, returns, pend, inflight, out>>

Slots == 1..NumSlots

\* A handle that reports itself loaded as soon as a load has begun
is_loaded_early == model # 0 \/ loads # {}

\* is_loaded
is_loaded == model # 0

\* A load_model call is inside YOLO(...)
load_running == loads # {}

\* The record of a call.  What it was given: ready and loading (whether the
\* handle held a model and whether a load_model call was running when it was
\* made), req (the
\* upload and thresholds of a request answered before the read), bytes
\* ("decodable" or "undecodable" bytes handed to predict, "none" without).
\* What it did: stage (where it ended), read (the upload was read), timer and
\* invoked (the timer was started, the model invoked), conf and iou (the
\* thresholds the model was invoked with).  What it answered: code (the HTTP
\* status, 0 for a direct call), err (the exception, "" for none), body.
NoOutcome ==
    [kind |-> "none", stage |-> "", code |-> 0, err |-> "", body |-> None,
     ready |-> FALSE, loading |-> FALSE, req |-> None, bytes |-> "none",
     read |-> FALSE, timer |-> FALSE, invoked |-> FALSE,
     conf |-> None, iou |-> None]

\* detector = ObjectDetector(): no model, nothing loaded, no request yet
Init ==
    /\ model = 0
    /\ yoloCalls = 0
    /\ loads = {}
    /\ started = FALSE
    /\ returns = <<>>
    /\ pend = [s \in Slots |-> None]
    /\ inflight = None
    /\ out = NoOutcome

(***************************** load_model **********************************)
\* load_model up to the call of YOLO(self.model_name); nothing guards it, so
\* a call can enter while others are inside
load_model_enter ==
    /\ yoloCalls < MaxLoads
    /\ loads' = loads \cup {yoloCalls + 1}
    /\ yoloCalls' = yoloCalls + 1

\* startup_event: runs once and calls detector.load_model()
startup_event ==
    /\ ~started
    /\ started' = TRUE
    /\ load_model_enter
    /\ UNCHANGED <<model, returns, pend, inflight, out>>

\* detector.load_model() called by anyone else
load_model ==
    /\ load_model_enter
    /\ UNCHANGED <<model, started, returns, pend, inflight, out>>

\* self.model after the call constructing obj returned from YOLO(...) (ok)
\* or saw it raise: the new object, or what self.model was
LoadedModel(obj, ok) == IF ok THEN obj ELSE model

\* load_model from the return of YOLO(...): the new object is assigned and
\* True returned, or the constructor raised, self.model is left as it was
\* and False returned
load_model_return(l, ok) ==
    /\ l \in loads
    /\ loads' = loads \ {l}
    /\ model' = LoadedModel(l, ok)
    /\ returns' = Append(returns, ok)
    /\ UNCHANGED <<yoloCalls, started, pend, inflight, out>>

(***************************** GET /health *********************************)
\* A health response whose status does not depend on the handle
HealthResponse_AlwaysHealthy(is_healthy) ==
    [status |-> "healthy",
     model_loaded |-> is_healthy,
     model_name |-> model_name,
     version |-> app_version]

\* HealthResponse(status=..., model_loaded=is_healthy, model_name, version)
HealthResponse(is_healthy) ==
    [status |-> IF is_healthy THEN "healthy" ELSE "unhealthy",
     model_loaded |-> is_healthy,
     model_name |-> model_name,
     version |-> app_version]

health_check ==
    /\ out' = [NoOutcome EXCEPT !.kind = "health", !.stage = "health", !.code = 200,
                                !.body = Some(HealthResponse(is_loaded)),
                                !.ready = (model # 0), !.loading = load_running]
    /\ UNCHANGED <<model, yoloCalls, loads, started, returns, pend, inflight>>

(***************************** ObjectDetector.predict **********************)
\* A call of the given kind, made in the current state
Call(kind) ==
    [NoOutcome EXCEPT !.kind = kind, !.ready = (model # 0), !.loading = load_running]

\* The same call, handed the bytes b
CallWith(kind, b) ==
    [Call(kind) EXCEPT !.bytes = IF Decodable(b) THEN "decodable" ELSE "undecodable"]

\* The call ended at the readiness check or in the decode step
StartFailure(call, st) ==
    [call EXCEPT !.stage = st.stage, !.err = st.err]

\* The call ended in the model invocation, which raised
InvokeFailure(call, conf, iou, mo) ==
    [call EXCEPT !.stage = "invoke", !.err = mo.err, !.timer = TRUE,
                 !.invoked = TRUE, !.conf = conf, !.iou = iou]

\* The model returned to the call: the response, or the error of the
\* translation
FinishOutcome(call, fin, conf, iou) ==
    [call EXCEPT !.stage = IF fin.err = "" THEN "response" ELSE "translate",
                 !.err = fin.err, !.body = fin.body, !.timer = TRUE,
                 !.invoked = TRUE, !.conf = conf, !.iou = iou]

\* What predict(image_bytes, confidence_threshold, iou_threshold) can end in
\* when the model may return any of raws
PredictOutcomes(call, loaded, b, conf, iou, raws) ==
    LET st == PredictStart(loaded, b, conf, iou)
    IN IF st.err # "" THEN {StartFailure(call, st)}
       ELSE {IF mo.err # ""
             THEN InvokeFailure(call, st.conf, st.iou, mo)
             ELSE FinishOutcome(call, PredictFinish(mo.raw[1], st.image[1].size),
                                st.conf, st.iou) :
             mo \in ModelOutcomes(st.image[1], st.conf[1], st.iou[1], raws)}

\* detector.predict(...) called directly, from its call to its return
predict(b, args, raws) ==
    /\ inflight = None
    /\ out' \in PredictOutcomes(CallWith("direct", b), is_loaded, b,
                                  args[1], args[2], raws)
    /\ UNCHANGED <<model, yoloCalls, loads, started, returns, pend, inflight>>

\* The end of a direct predict call the model has returned to (lines 127-139)
predict_return ==
    /\ inflight # None
    /\ LET call == inflight[1]
       IN out' = FinishOutcome(call.call, PredictFinish(call.raw, call.size),
                               call.conf, call.iou)
    /\ inflight' = None
    /\ UNCHANGED <<model, yoloCalls, loads, started, returns, pend>>

(***************************** POST /predict *******************************)
\* file: UploadFile = File(...): the request carries a part named "file" and
\* the part has a filename parameter (a part without one is parsed as a form
\* field, a string, which fastapi's validation does not take for a file)
IsUploadFile(up) == up.has_file /\ up.filename # None

\* A handler that checks the file before the readiness of the detector
HandlerEntry_FileChecksFirst(loaded, up, conf, iou) ==
    IF ~IsUploadFile(up) \/ ~QueryOk(conf) \/ ~QueryOk(iou)
    THEN [code |-> 422, stage |-> "validation"]
    ELSE IF ContentTypeRejected(up.content_type)
    THEN [code |-> 400, stage |-> "content_type"]
    ELSE IF ExtensionRejected(up.filename)
    THEN [code |-> 400, stage |-> "extension"]
    ELSE IF ~loaded THEN [code |-> 503, stage |-> "not_loaded"]
    ELSE [code |-> 0, stage |-> "read"]

\* What a request meets before the first await: fastapi's validation of the
\* parameters (a required file part with a filename, thresholds within
\* [0, 1]), then the handler's checks in their order.  code 0: the handler
\* goes on to read.
HandlerEntry(loaded, up, conf, iou) ==
    IF ~IsUploadFile(up) \/ ~QueryOk(conf) \/ ~QueryOk(iou)
    THEN [code |-> 422, stage |-> "validation"]
    ELSE IF ~loaded THEN [code |-> 503, stage |-> "not_loaded"]
    ELSE IF ContentTypeRejected(up.content_type)
    THEN [code |-> 400, stage |-> "content_type"]
    ELSE IF ExtensionRejected(up.filename)
    THEN [code |-> 400, stage |-> "extension"]
    ELSE [code |-> 0, stage |-> "read"]

\* predict_objects up to `await file.read()`
predict_objects(slot, up, args) ==
    /\ pend[slot] = None
    /\ LET e == HandlerEntry(is_loaded, up, args[1], args[2])
       IN IF e.code # 0
          THEN /\ out' = [Call("http") EXCEPT !.stage = e.stage, !.code = e.code,
                                              !.req = Some([up |-> up, args |-> args])]
               /\ UNCHANGED pend
          ELSE /\ pend' = [pend EXCEPT ![slot] = Some(args)]
               /\ UNCHANGED out
    /\ UNCHANGED <<model, yoloCalls, loads, started, returns, inflight>>

\* The status the handler gives to what detector.predict ended in: 200 with
\* the result, or 500 from `except Exception`
HttpStatus(o) == IF o.err = "" THEN 200 ELSE 500

\* predict_objects from the read on: the size check, detector.predict, and
\* the mapping of whatever it raises to a status
predict_objects_read(slot, b, raws) ==
    /\ pend[slot] # None
    /\ pend' = [pend EXCEPT ![slot] = None]
    /\ LET args == pend[slot][1]
           call == [CallWith("http", b) EXCEPT !.read = TRUE]
       IN IF b.nbytes > max_file_size
          THEN out' = [call EXCEPT !.stage = "size", !.code = 413, !.bytes = "none"]
          ELSE \E o \in PredictOutcomes(call, is_loaded, b, args[1], args[2], raws) :
                  out' = [o EXCEPT !.code = HttpStatus(o)]
    /\ UNCHANGED <<model, yoloCalls, loads, started, returns, inflight>>

(***************************** specifications ******************************)
Next ==
    \/ startup_event
    \/ load_model
    \/ \E l \in loads, ok \in BOOLEAN : load_model_return(l, ok)
    \/ health_check
    \/ \E b \in ByteStrings, args \in ThresholdArgs : predict(b, args, SampleRaws)
    \/ \E slot \in Slots, up \in Uploads, args \in ThresholdArgs :
          predict_objects(slot, up, args)
    \/ \E slot \in Slots, b \in ByteStrings : predict_objects_read(slot, b, SampleRaws)

Spec == Init /\ [][Next]_vars

\* The translation of every raw result: the detector is loaded and a direct
\* predict call on a photo, with the default thresholds, has just got its raw
\* result from the model.
InitTranslate ==
    /\ model = 1
    /\ yoloCalls = 1
    /\ loads = {}
    /\ started = TRUE
    /\ returns = <<TRUE>>
    /\ pend = [s \in Slots |-> None]
    /\ inflight \in {Some([call |-> [NoOutcome EXCEPT !.kind = "direct", !.ready = TRUE,
                                                      !.bytes = "decodable"],
                           raw |-> r, size |-> PhotoBytes.size,
                           conf |-> Some(confidence_threshold),
                           iou |-> Some(iou_threshold)]) : r \in RawResults}
    /\ out = NoOutcome

NextTranslate == predict_return

SpecTranslate == InitTranslate /\ [][NextTranslate]_vars

(***************************** properties **********************************)
PredictKinds == {"http", "direct"}

\* The call that completed last is a predict call: a direct one, or a request
\* the /predict handler was called for
PredictCall == out.kind \in PredictKinds /\ out.stage # "validation"

\* The call was refused as unavailable and did nothing else
Refused ==
    /\ out.stage = "not_loaded"
    /\ out.kind = "http" => out.code = 503
    /\ out.kind = "direct" => out.err = "RuntimeError"
    /\ ~out.read /\ ~out.timer /\ ~out.invoked
    /\ out.body = None

\* C1: a predict call made while the handle holds no model (never loaded,
\* load running, load failed) is refused as unavailable (503 from the
\* handler, the not-loaded error from ObjectDetector.predict), does not
\* invoke the model and returns no response.
C1_NotReadyRefused == (PredictCall /\ ~out.ready) => Refused

\* C1: a request was refused with 503 after the only load had failed
C1_Witness ==
    /\ out.kind = "http" /\ ~out.ready /\ out.code = 503
    /\ returns = <<FALSE>> /\ ~is_loaded

\* C2: a load_model call made while the handle is Ready constructs nothing
\* and leaves the model resource in place: once a model is held, no step
\* enters YOLO(...) again or replaces the model.
C2_LoadOnce == [][is_loaded => (yoloCalls' = yoloCalls /\ model' = model)]_vars

\* Some load_model call has returned False
SomeLoadFailed == \E i \in 1..Len(returns) : returns[i] = FALSE

\* C3: once a load_model call has failed, the handle is not Ready and
\* /health answers model_loaded = false and status "unhealthy", from then on.
C3_FailedLoadStaysUnhealthy ==
    SomeLoadFailed =>
        /\ ~is_loaded
        /\ HealthResponse(is_loaded).model_loaded = FALSE
        /\ HealthResponse(is_loaded).status = "unhealthy"

\* C4, every state: a predict call made while a load is running and no model
\* is held yet is refused as unavailable, without reaching the model.
C4_Refusals == (PredictCall /\ out.loading /\ ~out.ready) => Refused

\* C4, every step: readiness turns true only in the step in which a running
\* load_model returns True with the constructed model; a step that completes
\* a predict call starts no load and changes no model; while no model is
\* held no handler gets as far as reading its upload.
C4_Steps ==
    /\ (~is_loaded /\ is_loaded') =>
          /\ returns' = Append(returns, TRUE)
          /\ \E l \in loads : loads' = loads \ {l} /\ model' = l
    /\ (out' # out /\ out'.kind \in PredictKinds) =>
          UNCHANGED <<model, yoloCalls, loads, returns>>
    /\ ~is_loaded => pend' = pend

\* C4: while the model is loading every predict request is refused as
\* unavailable, none starts a load or reaches the model, and none sees the
\* handle ready before the load has completed.
C4_LoadingRefusesAll == []C4_Refusals /\ [][C4_Steps]_vars

\* C4: a request was refused with 503 while the first load was running
C4_Witness ==
    /\ out.kind = "http" /\ out.loading /\ ~out.ready /\ out.code = 503
    /\ load_running /\ ~is_loaded

\* A threshold within [0.0, 1.0]
InUnit(v) == v >= 0 /\ v <= 100

\* C5: no predict call passes a threshold outside [0.0, 1.0] to the model
\* invocation.
C5_OutOfRangeNeverInvoked ==
    (PredictCall /\ out.invoked) => (InUnit(out.conf[1]) /\ InUnit(out.iou[1]))

\* C6: predict on bytes that are not a decodable image ends in the decode
\* step: the timer is not started, the model is not invoked, no response is
\* returned.
C6_UndecodableEndsInDecode ==
    (PredictCall /\ out.ready /\ out.bytes = "undecodable") =>
        /\ out.stage = "decode"
        /\ ~out.timer /\ ~out.invoked
        /\ out.body = None

\* C7: a request that passed the handler's checks and whose bytes failed to
\* decode is answered with status 400.
C7_DecodeFailureIs400 ==
    (out.kind = "http" /\ out.stage = "decode" /\ out.err # "") => out.code = 400

\* The uploads whose content type starts with "image/" and whose name ends in
\* an allowed extension (the text after the last ".", or the whole name
\* without one, whatever its case)
ImageTypes == {<<"i", "m", "a", "g", "e", "/", "p", "n", "g">>}
AllowedNames ==
    { <<"a", ".", "p", "n", "g">>, <<"a", ".", "J", "P", "G">>,
      <<"a", ".", "W", "e", "b", "P">>,
      <<"a", ".", "b", ".", "j", "p", "g">>, <<"p", "n", "g">> }
BadUpload(up) ==
    \/ up.content_type = None
    \/ up.content_type[1] \notin ImageTypes
    \/ up.filename = None
    \/ up.filename[1] \notin AllowedNames

ArgsInUnit(args) ==
    /\ args[1] = None \/ InUnit(args[1][1])
    /\ args[2] = None \/ InUnit(args[2][1])

\* The request answered last carried a file with a bad content type or name
BadUploadAnswered ==
    /\ out.kind = "http" /\ out.req # None
    /\ IsUploadFile(out.req[1].up) /\ BadUpload(out.req[1].up)

\* No request with such a file gets as far as the read
BadUploadsStopped ==
    \A up \in Uploads, args \in ThresholdArgs :
        (IsUploadFile(up) /\ BadUpload(up)) =>
            HandlerEntry(is_loaded, up, args[1], args[2]).code # 0

\* C8 as claimed: a request whose upload has a content type not starting
\* with "image/" or an extension not allowed is answered 503 when no model is
\* loaded and 400 otherwise, and its bytes are neither read nor predicted on.
C8_BadUploadRejected ==
    /\ BadUploadsStopped
    /\ BadUploadAnswered =>
          /\ out.code = IF out.ready THEN 400 ELSE 503
          /\ ~out.read /\ ~out.invoked /\ out.body = None

\* C8 as amended: such a request is answered 422 when one of its thresholds
\* is outside [0.0, 1.0], otherwise 503 when no model is loaded, otherwise
\* 400; its bytes are neither read nor predicted on.
C8_BadUploadRejectedOrInvalid ==
    /\ BadUploadsStopped
    /\ BadUploadAnswered =>
          /\ out.code = IF ~ArgsInUnit(out.req[1].args) THEN 422
                        ELSE IF out.ready THEN 400 ELSE 503
          /\ ~out.read /\ ~out.invoked /\ out.body = None

\* C8: a text file sent to a loaded detector was answered 400
C8_Witness ==
    /\ BadUploadAnswered /\ out.ready /\ out.code = 400
    /\ out.req[1].up.content_type = TextType
    /\ ~out.read

\* The raw result has no candidates
NoCandidates(raw) == raw.boxes_none \/ raw.cands = <<>>

\* The step that returns a response: its count is the length of its list, and
\* a raw result without candidates gives the empty list and the count 0
C9_Step ==
    (inflight # None /\ out'.body # None) =>
        LET r == out'.body[1]
        IN /\ r.num_detections = Len(r.detections)
           /\ NoCandidates(inflight[1].raw) =>
                 (r.detections = <<>> /\ r.num_detections = 0)

\* C9: every response predict returns has num_detections = len(detections),
\* and a raw result without candidates gives detections = [] and
\* num_detections = 0.
C9_CountIsLength == [][C9_Step]_vars

\* C9: a response with two detections was returned
C9_Witness ==
    /\ out.kind = "direct" /\ out.body # None
    /\ out.body[1].num_detections = 2 /\ Len(out.body[1].detections) = 2

\* The boxes of the response returned last
ResponseBoxes ==
    IF out.kind \in PredictKinds /\ out.body # None
    THEN {out.body[1].detections[i].bbox : i \in 1..Len(out.body[1].detections)}
    ELSE {}

\* C10: every box of every response has x_min < x_max and y_min < y_max.
C10_BoxesStrict ==
    \A bb \in ResponseBoxes : bb.x_min < bb.x_max /\ bb.y_min < bb.y_max

\* C11: every answer of /health has the status 200, and its status is
\* "healthy" and model_loaded true exactly when the handle held a model when
\* it was asked, "unhealthy" and false otherwise.
C11_HealthFollowsReadiness ==
    out.kind = "health" =>
        /\ out.code = 200
        /\ out.err = ""
        /\ out.body # None
        /\ out.body[1].model_loaded = out.ready
        /\ out.body[1].status = (IF out.ready THEN "healthy" ELSE "unhealthy")

\* C11: /health answered 200 and "unhealthy" while a load was running and no
\* model was held
C11_Witness ==
    /\ out.kind = "health" /\ out.code = 200
    /\ out.loading /\ ~out.ready
    /\ out.body[1].status = "unhealthy" /\ ~out.body[1].model_loaded

\* The candidates of a raw result, in the order of its arrays
CandidatesOf(raw) == IF raw.boxes_none THEN <<>> ELSE raw.cands

\* A candidate whose class index is in the label table and whose score is in
\* [0.0, 1.0]
WellFormed(c) == c.cls \in DOMAIN class_names /\ InUnit(c.conf)

\* The step that translates a raw result: a list it returns has one
\* Detection per candidate, the i-th made of the i-th candidate's class name,
\* score and truncated corners; it returns one whenever every candidate is
\* well formed, and the empty one when there is no candidate
C12_Step ==
    inflight # None =>
        LET cands == CandidatesOf(inflight[1].raw)
        IN /\ out'.body # None =>
                 LET d == out'.body[1].detections
                 IN /\ Len(d) = Len(cands)
                    /\ \A i \in 1..Len(cands) :
                          /\ d[i].class_name = class_names[cands[i].cls]
                          /\ d[i].confidence = cands[i].conf
                          /\ d[i].bbox = [x_min |-> Trunc(cands[i].box[1]),
                                          y_min |-> Trunc(cands[i].box[2]),
                                          x_max |-> Trunc(cands[i].box[3]),
                                          y_max |-> Trunc(cands[i].box[4])]
           /\ (\A i \in 1..Len(cands) : WellFormed(cands[i])) =>
                 (out'.err = "" /\ out'.body # None)
           /\ cands = <<>> =>
                 (out'.err = "" /\ out'.body # None
                    /\ out'.body[1].detections = <<>>)

\* C12: _parse_results returns one Detection per raw candidate, in the order
\* of the raw arrays, the i-th carrying the class name of candidate i's class
\* index, candidate i's score and candidate i's truncated box; a raw result
\* without candidates gives the empty list and no error.
C12_OnePerCandidateInOrder == [][C12_Step]_vars

\* C12: a list of two Detections of different classes, scores and boxes was
\* returned
C12_Witness ==
    /\ out.kind = "direct" /\ out.stage = "response" /\ out.body # None
    /\ Len(out.body[1].detections) = 2
    /\ out.body[1].detections[1].class_name = "person"
    /\ out.body[1].detections[2].class_name = "bicycle"
    /\ out.body[1].detections[1].confidence = 90
    /\ out.body[1].detections[2].confidence = 50
    /\ out.body[1].detections[1].bbox # out.body[1].detections[2].bbox

====
